---- MODULE Spec2Model ----
(***************************************************************************)
(* DocRAG: multi-tenant document ingestion and retrieval.                  *)
(*                                                                         *)
(* The module models the vector store wrapper (app/vectorstore/qdrant.py), *)
(* the answer synthesizer (app/llm/gemini_client.py), the segmenter        *)
(* (app/ingestion/chunker.py), the pipeline (app/ingestion/pipeline.py)    *)
(* and the HTTP handlers of app/main.py.                                   *)
(*                                                                         *)
(* The specifications share the state:                                     *)
(*   StoreSpec  the vector store interface called with arbitrary           *)
(*              arguments (create_collection, store_embeddings,            *)
(*              search_embeddings, the tenant-filtered delete);            *)
(*   Spec       the HTTP handlers, whose document ids are fresh uuids and  *)
(*              whose vectors come from the embedding backend;             *)
(*   ChunkSpec  chunk_text, one iteration of its loop per step (ChunkLive  *)
(*              adds the fairness of sequential code);                     *)
(*   AnswerSpec generate_answer called with arbitrary arguments;           *)
(*   CreateSpec create_collection run by concurrent callers.               *)
(*                                                                         *)
(* Encodings.                                                              *)
(*   text      a sequence of runs [c, n]: n times the character c;         *)
(*   vector    [dim, x, y]: a list of dim floats whose first two           *)
(*             components are x and y and whose other components are 0;    *)
(*             dim = 0 is the empty list.  Components are in {-1, 0, 1}    *)
(*             and never all zero (the cosine of a zero vector is NaN);    *)
(*   score     the cosine c of two vectors is kept as sign(c) * 4 * c^2,   *)
(*             an integer for these vectors and strictly increasing in c,  *)
(*             so order and ties of the scores are those of the cosines;   *)
(*   point id  md5 is taken to be collision free: an injective mixing      *)
(*             function of the hashed string, whose order is unrelated to  *)
(*             the order of insertion.                                     *)
(***************************************************************************)
EXTENDS Integers, Sequences, FiniteSets, TLC

VARIABLES collection, store, usedDocs, backend, lastOp, chunker, creators

vars == <<collection, store, usedDocs, backend, lastOp, chunker, creators>>

(***************************************************************************)
(* Program constants                                                       *)
(***************************************************************************)
VECTOR_SIZE == 384

SCROLL_LIMIT == 100

DEFAULT_LIMIT == 5

ENDPOINT_LIMIT == 5

CHUNK_SIZE == 2000

CHUNK_OVERLAP == 300

MIN_TEXT_LEN == 50

(***************************************************************************)
(* Bounds of the model                                                     *)
(***************************************************************************)
MaxDoc == 2

Tenants == {"A", "B"}

DocIds == 1..MaxDoc

ChunkIdxs == {0, 1}

(***************************************************************************)
(* Small helpers                                                           *)
(***************************************************************************)
MinOf(a, b) == IF a <= b THEN a ELSE b

SeqsUpTo(S, n) == UNION {[1..k -> S] : k \in 0..n}

(***************************************************************************)
(* Text: len, slices, str.strip, the whitespace normalisation and          *)
(* chunk_text (chunker.py).  A text is the sequence of its runs: a run     *)
(* [c, n] is the character c repeated n > 0 times, and adjacent runs hold  *)
(* different characters, so equal texts have equal run sequences.          *)
(***************************************************************************)
Run(c, n) == [c |-> c, n |-> n]

\* len(text[:k]) for the first k runs.
RECURSIVE RunsLen(_, _)
RunsLen(text, k) == IF k = 0 THEN 0 ELSE RunsLen(text, k - 1) + text[k].n

\* len(text)
TextLen(text) == RunsLen(text, Len(text))

MaxOf(a, b) == IF a >= b THEN a ELSE b

NonEmptyRun(r) == r.n > 0

\* text[a:b] for 0 <= a: run k holds the offsets RunsLen(k-1) .. RunsLen(k)-1.
Slice(text, a, b) ==
  SelectSeq([k \in 1..Len(text) |->
               Run(text[k].c,
                   MaxOf(0, MinOf(b, RunsLen(text, k)) - MaxOf(a, RunsLen(text, k - 1))))],
            NonEmptyRun)

IsSpace(c) == c \in {" ", "\t", "\n"}

RECURSIVE FirstNonSpace(_, _)
FirstNonSpace(s, i) ==
  IF i > Len(s) THEN i
  ELSE IF IsSpace(s[i].c) THEN FirstNonSpace(s, i + 1) ELSE i

RECURSIVE LastNonSpace(_, _)
LastNonSpace(s, i) ==
  IF i < 1 THEN i
  ELSE IF IsSpace(s[i].c) THEN LastNonSpace(s, i - 1) ELSE i

\* str.strip()
Strip(s) ==
  LET a == FirstNonSpace(s, 1)
      b == LastNonSpace(s, Len(s))
  IN  IF a > b THEN <<>> ELSE SubSeq(s, a, b)

\* re.sub(r'\s+', ' ', text) on the first k runs: a run of whitespace that
\* follows whitespace joins the space already written.
RECURSIVE Collapse(_, _)
Collapse(text, k) ==
  IF k = 0 THEN <<>>
  ELSE LET done == Collapse(text, k - 1)
       IN  IF ~IsSpace(text[k].c) THEN Append(done, text[k])
           ELSE IF k > 1 /\ IsSpace(text[k - 1].c) THEN done
           ELSE Append(done, Run(" ", 1))

\* re.sub(r'\s+', ' ', text).strip()
Normalize(text) == Strip(Collapse(text, Len(text)))

\* The while loop of chunk_text from offset start (0-based).
RECURSIVE ChunkLoop(_, _, _, _)
ChunkLoop(text, start, chunk_size, overlap) ==
  IF start >= TextLen(text) THEN <<>>
  ELSE <<Slice(text, start, start + chunk_size)>>
         \o ChunkLoop(text, start + chunk_size - overlap, chunk_size, overlap)

chunk_text(text, chunk_size, overlap) ==
  ChunkLoop(Normalize(text), 0, chunk_size, overlap)

(***************************************************************************)
(* Vectors and cosine similarity (qdrant.py, cosine_similarity)            *)
(***************************************************************************)
Vec(n, a, b) == [dim |-> n, x |-> a, y |-> b]

EmptyVec == Vec(0, 0, 0)

Sign(n) == IF n > 0 THEN 1 ELSE IF n < 0 THEN -1 ELSE 0

Dot(u, v) == u.x * v.x + u.y * v.y

\* np.dot raises ValueError on operands of different length.
DimMismatch(u, v) == u.dim # v.dim

\* sign(c) * 4 * c^2 for the cosine c of u and v (see the encoding above).
cosine_similarity(u, v) ==
  (Sign(Dot(u, v)) * 4 * Dot(u, v) * Dot(u, v)) \div (Dot(u, u) * Dot(v, v))

(***************************************************************************)
(* The collection of points (the Qdrant service behind qdrant.py)          *)
(***************************************************************************)
\* hashlib.md5(f"{document_id}_{chunk_index}").hexdigest()
PointId(document_id, chunk_index) ==
  ((document_id * 16 + chunk_index) * 37) % 101

Payload(tenant_id, document_id, chunk_index, text) ==
  [tenant_id |-> tenant_id, document_id |-> document_id,
   chunk_index |-> chunk_index, text |-> text]

\* Mutant of Upsert: a point whose id is already stored is added under a new
\* id instead of replacing the stored point (ids that are not a function of
\* the document and the chunk alone).
UpsertAlwaysNew(st, points) ==
  LET n == Len(points)
      top == IF DOMAIN st = {} THEN 0
             ELSE CHOOSE a \in DOMAIN st : \A b \in DOMAIN st : b <= a
      newId(k) == IF points[k].id \in DOMAIN st THEN 101 + top + k
                  ELSE points[k].id
      ids == {newId(k) : k \in 1..n}
  IN  [id \in (DOMAIN st) \cup ids |->
         IF id \in DOMAIN st THEN st[id]
         ELSE LET k == CHOOSE j \in 1..n : newId(j) = id
              IN  [vector |-> points[k].vector, payload |-> points[k].payload]]

\* client.upsert: a point replaces the stored point of the same id; of two
\* points of one batch with the same id the later one stays.
Upsert(st, points) ==
  LET ids == {points[k].id : k \in 1..Len(points)}
      last(id) == CHOOSE k \in 1..Len(points) :
                    /\ points[k].id = id
                    /\ \A j \in 1..Len(points) : points[j].id = id => j <= k
  IN  [id \in (DOMAIN st) \cup ids |->
         IF id \in ids
           THEN [vector |-> points[last(id)].vector,
                 payload |-> points[last(id)].payload]
           ELSE st[id]]

TenantIds(st, tenant_id) ==
  {id \in DOMAIN st : st[id].payload.tenant_id = tenant_id}

\* Mutant of DeleteByTenant: the delete without its filter.
DeleteEveryTenant(st, tenant_id) == <<>>

\* client.delete with the tenant_id filter of clear_documents.
DeleteByTenant(st, tenant_id) ==
  [id \in (DOMAIN st) \ TenantIds(st, tenant_id) |-> st[id]]

RECURSIVE AscendingIds(_)
AscendingIds(S) ==
  IF S = {} THEN <<>>
  ELSE LET m == CHOOSE a \in S : \A b \in S : a <= b
       IN  <<m>> \o AscendingIds(S \ {m})

\* Mutant of Scroll: the scroll without its tenant filter.
ScrollEveryTenant(st, tenant_id) ==
  LET ids == AscendingIds(DOMAIN st)
      n == MinOf(Len(ids), SCROLL_LIMIT)
  IN  [k \in 1..n |->
         [id |-> ids[k], vector |-> st[ids[k]].vector,
          payload |-> st[ids[k]].payload]]

\* client.scroll with the tenant_id filter, limit=100, with payload and
\* vectors: the tenant's points in the order of their ids, one page.
Scroll(st, tenant_id) ==
  LET ids == AscendingIds(TenantIds(st, tenant_id))
      n == MinOf(Len(ids), SCROLL_LIMIT)
  IN  [k \in 1..n |->
         [id |-> ids[k], vector |-> st[ids[k]].vector,
          payload |-> st[ids[k]].payload]]

(***************************************************************************)
(* store_embeddings (qdrant.py)                                            *)
(***************************************************************************)
\* An element of the embeddings list that is no dict with an 'embedding'.
BadItem == [kind |-> "other"]

Item(chunk_index, text, embedding) ==
  [kind |-> "dict", chunk_index |-> chunk_index, text |-> text,
   embedding |-> embedding]

\* Mutant of IsValidItem: the loop without its test of the vector's length.
IsValidItemAnyDim(item) == item.kind = "dict"

\* The two `continue` tests of the loop.
IsValidItem(item) ==
  /\ item.kind = "dict"
  /\ item.embedding.dim = VECTOR_SIZE

ItemPoint(tenant_id, document_id, item) ==
  [id |-> PointId(document_id, item.chunk_index),
   vector |-> item.embedding,
   payload |-> Payload(tenant_id, document_id, item.chunk_index, item.text)]

BuildPoints(tenant_id, document_id, embeddings) ==
  LET valid == SelectSeq(embeddings, IsValidItem)
  IN  [k \in 1..Len(valid) |-> ItemPoint(tenant_id, document_id, valid[k])]

\* The call's outcome: raised (ValueError, or the upsert's error when the
\* collection is missing), the store after it and the points it upserted.
store_embeddings(coll, st, tenant_id, document_id, embeddings) ==
  LET points == BuildPoints(tenant_id, document_id, embeddings)
  IN  IF embeddings = <<>> \/ points = <<>> \/ ~coll
        THEN [raised |-> TRUE, store |-> st, points |-> <<>>]
        ELSE [raised |-> FALSE, store |-> Upsert(st, points), points |-> points]

(***************************************************************************)
(* search_embeddings (qdrant.py)                                           *)
(***************************************************************************)
\* Mutant of EffectiveLimit: a slice one entry too long.
EffectiveLimitPlusOne(limit) == IF limit <= 0 THEN DEFAULT_LIMIT ELSE limit + 1

EffectiveLimit(limit) == IF limit <= 0 THEN DEFAULT_LIMIT ELSE limit

\* Mutant of InsertByScore: a sort that is descending but not stable.
InsertBeforeEqual(sorted, e) ==
  LET k == Cardinality({i \in 1..Len(sorted) : sorted[i].score > e.score})
  IN  SubSeq(sorted, 1, k) \o <<e>> \o SubSeq(sorted, k + 1, Len(sorted))

\* list.sort(key=score, reverse=True): descending, and stable (elements of
\* equal score keep their order).  Insertion of e after every element whose
\* score is at least e's.
InsertByScore(sorted, e) ==
  LET k == Cardinality({i \in 1..Len(sorted) : sorted[i].score >= e.score})
  IN  SubSeq(sorted, 1, k) \o <<e>> \o SubSeq(sorted, k + 1, Len(sorted))

RECURSIVE SortByScore(_)
SortByScore(scored) ==
  IF scored = <<>> THEN <<>>
  ELSE InsertByScore(SortByScore(SubSeq(scored, 1, Len(scored) - 1)),
                     scored[Len(scored)])

Scored(pool, query_vector) ==
  [k \in 1..Len(pool) |->
     [score |-> cosine_similarity(query_vector, pool[k].vector),
      payload |-> pool[k].payload]]

\* The call's outcome: the list returned, whether client.scroll was issued,
\* the pool it returned, whether an exception was caught on the way (the
\* except clause prints it and returns []) and whether the call raised: the
\* try statement spans the whole body, so it never does.
search_embeddings(coll, st, tenant_id, query_vector, limit) ==
  LET pool == Scroll(st, tenant_id)
      ranked == SortByScore(Scored(pool, query_vector))
  IN  IF query_vector.dim = 0
        THEN [results |-> <<>>, scrolled |-> FALSE, pool |-> <<>>, caught |-> TRUE,
              raised |-> FALSE]
      ELSE IF ~coll
        THEN [results |-> <<>>, scrolled |-> TRUE, pool |-> <<>>, caught |-> TRUE,
              raised |-> FALSE]
      ELSE IF \E k \in 1..Len(pool) : DimMismatch(query_vector, pool[k].vector)
        THEN [results |-> <<>>, scrolled |-> TRUE, pool |-> pool, caught |-> TRUE,
              raised |-> FALSE]
      ELSE [results |-> SubSeq(ranked, 1, MinOf(EffectiveLimit(limit), Len(ranked))),
            scrolled |-> TRUE, pool |-> pool, caught |-> FALSE,
            raised |-> FALSE]

(***************************************************************************)
(* create_collection (qdrant.py), as one step                              *)
(***************************************************************************)
create_collection(coll) == TRUE

(***************************************************************************)
(* Requests are served one at a time: a handler runs as one step and       *)
(* leaves its call and its outcome in lastOp; Respond hands the outcome to *)
(* the caller and the service is idle again.                               *)
(***************************************************************************)
Idle == [op |-> "idle"]

\* No call of chunk_text is running.
NoChunker == [pc |-> "idle"]

\* No call of create_collection is running.
NoCreators == <<>>

Respond ==
  /\ lastOp.op # "idle"
  /\ lastOp' = Idle
  /\ UNCHANGED <<chunker, creators, collection, store, usedDocs, backend>>

\* @app.on_event("startup"): create_collection() before any request.
Startup ==
  /\ ~collection
  /\ collection' = create_collection(collection)
  /\ UNCHANGED <<chunker, creators, store, usedDocs, backend, lastOp>>

Ready == collection /\ lastOp.op = "idle"

\* clear_documents (main.py): the tenant-filtered delete.
ClearDocuments(tenant_id) ==
  /\ Ready
  /\ store' = DeleteByTenant(store, tenant_id)
  /\ lastOp' = [op |-> "clear_documents", tenant_id |-> tenant_id,
                error |-> FALSE, before |-> store]
  /\ UNCHANGED <<chunker, creators, collection, usedDocs, backend>>

(***************************************************************************)
(* StoreSpec: the vector store interface under arbitrary arguments         *)
(***************************************************************************)
ItemTexts == {<<Run("t", 1)>>}

ItemVectors ==
  {Vec(VECTOR_SIZE, 1, 0), Vec(VECTOR_SIZE, 0, 1), Vec(VECTOR_SIZE - 1, 1, 0)}

Items ==
  {Item(i, t, v) : i \in ChunkIdxs, t \in ItemTexts, v \in ItemVectors}
    \cup {BadItem}

\* The embeddings lists passed: at most one element per chunk index, in the
\* order of the chunk indices, possibly after an element that is no dict.
Batches ==
  {b \in SeqsUpTo(Items, Cardinality(ChunkIdxs)) :
     \A i, j \in 1..Len(b) :
       i < j => /\ b[j] # BadItem
                /\ b[i] # BadItem => b[i].chunk_index < b[j].chunk_index}

QueryVectors ==
  {Vec(VECTOR_SIZE, 1, 1), Vec(VECTOR_SIZE, -1, 0),
   Vec(VECTOR_SIZE - 1, 1, 0), EmptyVec}

Limits == {0, 1, 2}

NoStore == <<>>

StoreInit ==
  /\ collection = FALSE
  /\ store = NoStore
  /\ usedDocs = {}
  /\ backend = "absent"
  /\ lastOp = Idle
  /\ chunker = NoChunker
  /\ creators = NoCreators

StoreCall(tenant_id, document_id, embeddings) ==
  LET out == store_embeddings(collection, store, tenant_id, document_id, embeddings)
  IN  /\ Ready
      /\ store' = out.store
      /\ lastOp' = [op |-> "store_embeddings", tenant_id |-> tenant_id,
                    document_id |-> document_id, embeddings |-> embeddings,
                    raised |-> out.raised, points |-> out.points,
                    before |-> store]
      /\ UNCHANGED <<chunker, creators, collection, usedDocs, backend>>

SearchCall(tenant_id, query_vector, limit) ==
  LET out == search_embeddings(collection, store, tenant_id, query_vector, limit)
  IN  /\ Ready
      /\ lastOp' = [op |-> "search_embeddings", tenant_id |-> tenant_id,
                    query_vector |-> query_vector, limit |-> limit,
                    results |-> out.results, scrolled |-> out.scrolled,
                    pool |-> out.pool, caught |-> out.caught,
                    raised |-> out.raised]
      /\ UNCHANGED <<chunker, creators, collection, store, usedDocs, backend>>

StoreNext ==
  \/ Startup
  \/ Respond
  \/ \E t \in Tenants, d \in DocIds, e \in Batches : StoreCall(t, d, e)
  \/ \E t \in Tenants, q \in QueryVectors, l \in Limits : SearchCall(t, q, l)
  \/ \E t \in Tenants : ClearDocuments(t)

StoreSpec == StoreInit /\ [][StoreNext]_vars

(***************************************************************************)
(* The embedding backend (app/ingestion/embedder.py, not in the sources):  *)
(* a call yields a vector of the configured size that is a function of the *)
(* text, or yields nothing usable (an empty value, which the handlers test *)
(* for), or raises.                                                        *)
(***************************************************************************)
EmbedOutcomes == {"ok", "empty", "raise"}

EmbedVector(text) ==
  IF text[1].c \in {"a", "q"} THEN Vec(VECTOR_SIZE, 1, 0)
  ELSE IF text[1].c \in {"z", "r"} THEN Vec(VECTOR_SIZE, 0, 1)
  ELSE Vec(VECTOR_SIZE, 1, 1)

generate_embedding(text, outcome) ==
  IF outcome = "ok" THEN EmbedVector(text) ELSE EmptyVec

(***************************************************************************)
(* process_text (pipeline.py)                                              *)
(***************************************************************************)
\* outs[k] is the outcome of the embedding call on chunk k; a raise leaves
\* the function.
process_text(text, outs) ==
  LET chunks == chunk_text(text, CHUNK_SIZE, CHUNK_OVERLAP)
  IN  IF \E k \in 1..Len(chunks) : outs[k] = "raise"
        THEN [raised |-> TRUE, results |-> <<>>]
        ELSE [raised |-> FALSE,
              results |-> [k \in 1..Len(chunks) |->
                             Item(k - 1, chunks[k],
                                  generate_embedding(chunks[k], outs[k]))]]

(***************************************************************************)
(* generate_answer (gemini_client.py)                                      *)
(***************************************************************************)
\* Mutant of NoInfoAnswer: a message that does not name the query.
NoInfoAnswerUnnamed(query) == [kind |-> "no_info", body |-> <<>>]

\* "I couldn't find any relevant information about '{query}' ..."
NoInfoAnswer(query) == [kind |-> "no_info", body |-> query]

\* Mutant of generate_answer: the backend's error is not caught.
generate_answer_uncaught(bk, gen, query, context_chunks) ==
  IF bk = "configured" /\ gen = "ok"
    THEN [raised |-> FALSE, called |-> TRUE,
          answer |-> [kind |-> "generated", body |-> query]]
  ELSE IF bk = "configured"
    THEN [raised |-> TRUE, called |-> TRUE, answer |-> NoInfoAnswer(query)]
  ELSE IF context_chunks # <<>>
    THEN [raised |-> FALSE, called |-> FALSE,
          answer |-> [kind |-> "fallback", body |-> context_chunks[1].text]]
  ELSE [raised |-> FALSE, called |-> FALSE, answer |-> NoInfoAnswer(query)]

\* bk: whether client and GEMINI_API_KEY are set; gen: the outcome of
\* client.models.generate_content when it is called.  The answer is its kind
\* and the text it is built around (the backend's text is a function of the
\* prompt, kept as the query).
generate_answer(bk, gen, query, context_chunks) ==
  IF bk = "configured" /\ gen = "ok"
    THEN [raised |-> FALSE, called |-> TRUE,
          answer |-> [kind |-> "generated", body |-> query]]
  ELSE IF context_chunks # <<>>
    THEN [raised |-> FALSE, called |-> bk = "configured",
          answer |-> [kind |-> "fallback", body |-> context_chunks[1].text]]
  ELSE [raised |-> FALSE, called |-> bk = "configured",
        answer |-> NoInfoAnswer(query)]

(***************************************************************************)
(* The handlers of main.py                                                 *)
(***************************************************************************)
Err(msg) == [error |-> TRUE, message |-> msg]

TooShort(text) == text = <<>> \/ TextLen(Strip(text)) < MIN_TEXT_LEN

\* ingest_to_qdrant and auth_ingest_to_qdrant (the same body).  The outcome:
\* the response, the store after it, the collaborators called and whether a
\* document id was drawn.
ingest_to_qdrant(coll, st, tenant_id, text, document_id, outs) ==
  LET pt == process_text(text, outs)
      se == store_embeddings(create_collection(coll), st, tenant_id,
                             document_id, pt.results)
      begun == {"create_collection", "uuid4", "chunk_text", "generate_embedding"}
  IN  IF TooShort(text)
        THEN [resp |-> Err("Text too short (minimum 50 characters required)"),
              store |-> st, calls |-> {}]
      ELSE IF pt.raised
        THEN [resp |-> Err("Ingestion failed"), store |-> st, calls |-> begun]
      ELSE IF pt.results = <<>>
        THEN [resp |-> Err("No text chunks generated"), store |-> st,
              calls |-> begun \ {"generate_embedding"}]
      ELSE IF se.raised
        THEN [resp |-> Err("Ingestion failed"), store |-> st,
              calls |-> begun \cup {"store_embeddings"}]
      ELSE [resp |-> [error |-> FALSE,
                      message |-> "Document ingested successfully",
                      tenant_id |-> tenant_id, document_id |-> document_id,
                      total_chunks |-> Len(pt.results),
                      text_length |-> TextLen(text)],
            store |-> se.store,
            calls |-> begun \cup {"store_embeddings", "upsert"}]

\* An uploaded file: the extension of its name and its text (for a .pdf the
\* text PyPDF2 extracts from its pages).
File(ext, content) == [ext |-> ext, content |-> content]

\* Lines 299-336 of upload_file_endpoint and 205-239 of process_single_file:
\* segment, embed every chunk, draw the document id, keep the chunks whose
\* embedding is not empty and store them when there are any.
StoreFileText(coll, st, tenant_id, text, document_id, outs) ==
  LET chunks == chunk_text(text, CHUNK_SIZE, CHUNK_OVERLAP)
      all == [k \in 1..Len(chunks) |->
                Item(k - 1, chunks[k], generate_embedding(chunks[k], outs[k]))]
      embedding_data == SelectSeq(all, LAMBDA it : it.embedding.dim # 0)
      se == store_embeddings(coll, st, tenant_id, document_id, embedding_data)
      begun == {"chunk_text"} \cup (IF chunks = <<>> THEN {} ELSE {"generate_embedding"})
  IN  IF \E k \in 1..Len(chunks) : outs[k] = "raise"
        THEN [outcome |-> "raised", store |-> st, calls |-> begun,
              chunks_processed |-> 0, chunks_stored |-> 0]
      ELSE IF embedding_data = <<>>
        THEN [outcome |-> "ok", store |-> st, calls |-> begun \cup {"uuid4"},
              chunks_processed |-> Len(chunks), chunks_stored |-> 0]
      ELSE IF se.raised
        THEN [outcome |-> "storage_failed", store |-> st,
              calls |-> begun \cup {"uuid4", "store_embeddings"},
              chunks_processed |-> Len(chunks), chunks_stored |-> 0]
      ELSE [outcome |-> "ok", store |-> se.store,
            calls |-> begun \cup {"uuid4", "store_embeddings", "upsert"},
            chunks_processed |-> Len(chunks),
            chunks_stored |-> Len(embedding_data)]

FileResult(document_id, out) ==
  [error |-> FALSE, message |-> "processed", document_id |-> document_id,
   chunks_processed |-> out.chunks_processed,
   chunks_stored |-> out.chunks_stored]

\* upload_file_endpoint
upload_file_endpoint(coll, st, tenant_id, file, document_id, outs) ==
  LET text == IF file.ext = ".pdf" THEN Normalize(file.content) ELSE file.content
      out == StoreFileText(coll, st, tenant_id, text, document_id, outs)
      none == [store |-> st, calls |-> {}]
  IN  IF file.ext \notin {".txt", ".pdf", ".docx", ".md"}
        THEN [resp |-> Err("File type not supported")] @@ none
      ELSE IF file.ext = ".docx"
        THEN [resp |-> Err("DOCX processing not yet implemented")] @@ none
      ELSE IF file.ext = ".pdf" /\ text = <<>>
        THEN [resp |-> Err("Could not extract text from PDF")] @@ none
      ELSE IF out.outcome = "raised"
        THEN [resp |-> Err("Failed to process file"), store |-> st,
              calls |-> out.calls]
      ELSE IF out.outcome = "storage_failed"
        THEN [resp |-> Err("Failed to store embeddings"), store |-> st,
              calls |-> out.calls]
      ELSE [resp |-> FileResult(document_id, out), store |-> out.store,
            calls |-> out.calls]

\* process_single_file, with the try/except of upload_files_bulk around it.
process_single_file(coll, st, tenant_id, file, document_id, outs) ==
  LET text == IF file.ext = ".pdf" THEN Normalize(file.content) ELSE file.content
      out == StoreFileText(coll, st, tenant_id, text, document_id, outs)
      none == [store |-> st, calls |-> {}]
  IN  IF file.ext \notin {".txt", ".pdf", ".md"}
        THEN [resp |-> Err("File type not implemented")] @@ none
      ELSE IF file.ext = ".pdf" /\ text = <<>>
        THEN [resp |-> Err("Could not extract text from PDF")] @@ none
      ELSE IF out.outcome = "raised"
        THEN [resp |-> Err("Failed to process"), store |-> st,
              calls |-> out.calls]
      ELSE IF out.outcome = "storage_failed"
        THEN [resp |-> Err("Storage failed"), store |-> st,
              calls |-> out.calls]
      ELSE [resp |-> FileResult(document_id, out), store |-> out.store,
            calls |-> out.calls]

\* One iteration of the loop of upload_files_bulk: the extension test, then
\* process_single_file.
BulkFile(coll, st, tenant_id, file, document_id, outs) ==
  IF file.ext \notin {".txt", ".pdf", ".docx", ".md"}
    THEN [resp |-> Err("File type not supported"), store |-> st, calls |-> {}]
    ELSE process_single_file(coll, st, tenant_id, file, document_id, outs)

BulkAppend(one, rest) ==
  [results |-> <<one.resp>> \o rest.results,
   store |-> rest.store,
   calls |-> <<one.calls>> \o rest.calls]

\* The loop of upload_files_bulk over files k..Len(files): the per-file
\* results, the store after them and the calls made for each file.
RECURSIVE BulkLoop(_, _, _, _, _, _, _)
BulkStep(one, coll, tenant_id, files, docs, outs, k) ==
  BulkAppend(one, BulkLoop(coll, one.store, tenant_id, files, docs, outs, k + 1))

BulkLoop(coll, st, tenant_id, files, docs, outs, k) ==
  IF k > Len(files) THEN [results |-> <<>>, store |-> st, calls |-> <<>>]
  ELSE BulkStep(BulkFile(coll, st, tenant_id, files[k], docs[k], outs[k]),
                coll, tenant_id, files, docs, outs, k)

BulkResponse(files, loop) ==
  [resp |-> [error |-> FALSE, message |-> "Bulk upload completed",
             total_files |-> Len(files),
             successful_count |->
               Cardinality({k \in 1..Len(files) : ~loop.results[k].error}),
             failed_count |->
               Cardinality({k \in 1..Len(files) : loop.results[k].error}),
             results |-> loop.results],
   store |-> loop.store, calls |-> loop.calls]

upload_files_bulk(coll, st, tenant_id, files, docs, outs) ==
  BulkResponse(files, BulkLoop(coll, st, tenant_id, files, docs, outs, 1))

\* semantic_search and auth_semantic_search (the same body).  eo: the outcome
\* of embedding the query; gen: the outcome of the generation call.
semantic_search(coll, st, bk, tenant_id, query, eo, gen) ==
  LET se == search_embeddings(coll, st, tenant_id, EmbedVector(query),
                              ENDPOINT_LIMIT)
      response == [k \in 1..Len(se.results) |->
                     [score |-> se.results[k].score,
                      text |-> se.results[k].payload.text,
                      document_id |-> se.results[k].payload.document_id,
                      chunk_index |-> se.results[k].payload.chunk_index]]
      ga == generate_answer(bk, gen, query, response)
      found(answer) == [error |-> FALSE, message |-> "", tenant_id |-> tenant_id,
                        query |-> query, answer |-> answer,
                        total_results |-> Len(response), sources |-> response]
  IN  IF query = <<>> \/ TextLen(Strip(query)) < 1
        THEN [resp |-> Err("Please enter a question"), embedded |-> FALSE,
              searched |-> FALSE, generated |-> FALSE]
      ELSE IF eo = "raise"
        THEN [resp |-> Err("Search failed"), embedded |-> TRUE,
              searched |-> FALSE, generated |-> FALSE]
      ELSE IF eo = "empty"
        THEN [resp |-> Err("Failed to generate query embedding"),
              embedded |-> TRUE, searched |-> FALSE, generated |-> FALSE]
      ELSE IF se.results = <<>>
        THEN [resp |-> found(NoInfoAnswer(query)), embedded |-> TRUE,
              searched |-> TRUE, generated |-> FALSE]
      ELSE IF ga.raised
        THEN [resp |-> Err("Search failed"), embedded |-> TRUE,
              searched |-> TRUE, generated |-> TRUE]
      ELSE [resp |-> found(ga.answer), embedded |-> TRUE, searched |-> TRUE,
            generated |-> TRUE]

(***************************************************************************)
(* Spec: the HTTP handlers                                                 *)
(***************************************************************************)
\* 49 characters between a leading space and a trailing newline.
TextPadded == <<Run(" ", 1), Run("c", MIN_TEXT_LEN - 1), Run("\n", 1)>>

\* 50 characters, two of them a run of whitespace.
TextMinimal ==
  <<Run("b", MIN_TEXT_LEN \div 2 - 1), Run(" ", 1), Run("\n", 1),
    Run("b", MIN_TEXT_LEN - MIN_TEXT_LEN \div 2 - 1)>>

\* One character more than the step of the window: two chunks.
TextLong == <<Run("a", CHUNK_SIZE - CHUNK_OVERLAP), Run("z", 1)>>

IngestTexts == {TextPadded, TextMinimal, TextLong}

UploadFiles ==
  {File(".txt", <<>>), File(".txt", TextPadded), File(".txt", TextLong),
   File(".pdf", <<Run(" ", 1)>>), File(".pdf", TextPadded),
   File(".docx", TextPadded), File(".exe", TextPadded)}

BulkFiles == {File(".txt", <<>>), File(".txt", TextPadded), File(".exe", TextPadded)}

BulkLists == {<<f>> : f \in BulkFiles} \cup {<<f, g>> : f, g \in BulkFiles}

Queries == {<<>>, <<Run(" ", 1)>>, <<Run("q", 1)>>, <<Run("r", 1)>>}

GenOutcomes == {"ok", "raises"}

OutsFor(text) ==
  [1..Len(chunk_text(text, CHUNK_SIZE, CHUNK_OVERLAP)) -> EmbedOutcomes]

\* uuid.uuid4(): a document id no earlier call has drawn.
FreshDocs == DocIds \ usedDocs

Init ==
  /\ collection = FALSE
  /\ store = NoStore
  /\ usedDocs = {}
  /\ backend \in {"absent", "configured"}
  /\ lastOp = Idle
  /\ chunker = NoChunker
  /\ creators = NoCreators

Ingest(op, tenant_id, text, document_id, outs) ==
  LET out == ingest_to_qdrant(collection, store, tenant_id, text, document_id, outs)
  IN  /\ Ready
      /\ store' = out.store
      /\ usedDocs' = IF "uuid4" \in out.calls THEN usedDocs \cup {document_id}
                     ELSE usedDocs
      /\ lastOp' = [op |-> op, tenant_id |-> tenant_id, text |-> text,
                    outs |-> outs, resp |-> out.resp, calls |-> out.calls,
                    before |-> store]
      /\ UNCHANGED <<chunker, creators, collection, backend>>

IngestToQdrant ==
  \E t \in Tenants, x \in IngestTexts, d \in FreshDocs :
    \E o \in OutsFor(x) : Ingest("ingest_to_qdrant", t, x, d, o)

AuthIngestToQdrant ==
  \E t \in Tenants, x \in IngestTexts, d \in FreshDocs :
    \E o \in OutsFor(x) : Ingest("auth_ingest_to_qdrant", t, x, d, o)

UploadFile ==
  \E t \in Tenants, f \in UploadFiles, d \in FreshDocs :
    \E o \in OutsFor(f.content) :
      LET out == upload_file_endpoint(collection, store, t, f, d, o)
      IN  /\ Ready
          /\ store' = out.store
          /\ usedDocs' = IF "uuid4" \in out.calls THEN usedDocs \cup {d}
                         ELSE usedDocs
          /\ lastOp' = [op |-> "upload_file_endpoint", tenant_id |-> t,
                        text |-> f.content, ext |-> f.ext, outs |-> o,
                        resp |-> out.resp, calls |-> out.calls,
                        before |-> store]
          /\ UNCHANGED <<chunker, creators, collection, backend>>

UploadFilesBulk ==
  \E t \in Tenants, fs \in BulkLists :
    \E ds \in {x \in [1..Len(fs) -> FreshDocs] :
                 \A i, j \in 1..Len(fs) : i # j => x[i] # x[j]} :
      \E os \in {x \in [1..Len(fs) -> UNION {OutsFor(f.content) : f \in BulkFiles}] :
                   \A k \in 1..Len(fs) : x[k] \in OutsFor(fs[k].content)} :
        LET out == upload_files_bulk(collection, store, t, fs, ds, os)
        IN  /\ Ready
            /\ store' = out.store
            /\ usedDocs' = usedDocs \cup
                             {ds[k] : k \in {j \in 1..Len(fs) : "uuid4" \in out.calls[j]}}
            /\ lastOp' = [op |-> "upload_files_bulk", tenant_id |-> t,
                          files |-> fs, resp |-> out.resp, calls |-> out.calls,
                          before |-> store]
            /\ UNCHANGED <<chunker, creators, collection, backend>>

Search(op, tenant_id, query, eo, gen) ==
  LET out == semantic_search(collection, store, backend, tenant_id, query, eo, gen)
  IN  /\ Ready
      /\ lastOp' = [op |-> op, tenant_id |-> tenant_id, query |-> query,
                    eo |-> eo, gen |-> gen, resp |-> out.resp,
                    embedded |-> out.embedded, searched |-> out.searched,
                    generated |-> out.generated]
      /\ UNCHANGED <<chunker, creators, collection, store, usedDocs, backend>>

SemanticSearch ==
  \E t \in Tenants, q \in Queries, eo \in EmbedOutcomes, g \in GenOutcomes :
    Search("semantic_search", t, q, eo, g)

AuthSemanticSearch ==
  \E t \in Tenants, q \in Queries, eo \in EmbedOutcomes, g \in GenOutcomes :
    Search("auth_semantic_search", t, q, eo, g)

Next ==
  \/ Startup
  \/ Respond
  \/ IngestToQdrant
  \/ AuthIngestToQdrant
  \/ UploadFile
  \/ UploadFilesBulk
  \/ SemanticSearch
  \/ AuthSemanticSearch
  \/ \E t \in Tenants : ClearDocuments(t)

Spec == Init /\ [][Next]_vars

(***************************************************************************)
(* Claims on the vector store interface (checked under StoreSpec)          *)
(***************************************************************************)
IsSearch == lastOp.op = "search_embeddings"

IsStore == lastOp.op = "store_embeddings"

IsClear == lastOp.op = "clear_documents"

StoredPayloads(st, tenant_id) ==
  {st[id].payload : id \in TenantIds(st, tenant_id)}

\* C1: every result search_embeddings returns to tenant A is a stored point
\* whose tenant_id is A; no point of another tenant is returned, whatever its
\* similarity to the query vector.
C1_TenantIsolationOnRead ==
  IsSearch =>
    \A k \in 1..Len(lastOp.results) :
      /\ lastOp.results[k].payload.tenant_id = lastOp.tenant_id
      /\ lastOp.results[k].payload \in StoredPayloads(store, lastOp.tenant_id)

\* C1 witness: a search returned results although another tenant stores a
\* point strictly more similar to the query than the top result.
C1_Witness ==
  /\ IsSearch
  /\ lastOp.results # <<>>
  /\ \E id \in DOMAIN store :
       /\ store[id].payload.tenant_id # lastOp.tenant_id
       /\ cosine_similarity(lastOp.query_vector, store[id].vector)
            > lastOp.results[1].score

\* C2: clear_documents for tenant A removes every point of A and leaves every
\* point of every other tenant as it was (same id, vector and payload).
C2_TenantScopedDeletion ==
  IsClear =>
    /\ TenantIds(store, lastOp.tenant_id) = {}
    /\ DOMAIN store \subseteq DOMAIN lastOp.before
    /\ \A id \in DOMAIN lastOp.before :
         lastOp.before[id].payload.tenant_id # lastOp.tenant_id
           => id \in DOMAIN store /\ store[id] = lastOp.before[id]

\* C2 witness: a deletion removed points of its tenant while another tenant
\* had points stored.
C2_Witness ==
  /\ IsClear
  /\ TenantIds(lastOp.before, lastOp.tenant_id) # {}
  /\ store # NoStore

DocPoints(st, document_id) ==
  {id \in DOMAIN st : st[id].payload.document_id = document_id}

\* C3: store_embeddings called again with the same tenant_id, document_id and
\* fragments succeeds and leaves the store as the first call left it: the same
\* points, the same number of points of the document.
C3_IdempotentUpsert ==
  (IsStore /\ ~lastOp.raised) =>
    LET again == store_embeddings(collection, store, lastOp.tenant_id,
                                  lastOp.document_id, lastOp.embeddings)
    IN  /\ ~again.raised
        /\ again.store = store
        /\ Cardinality(DocPoints(again.store, lastOp.document_id))
             = Cardinality(DocPoints(store, lastOp.document_id))

\* C3 witness: a call that upserted points whose ids were all stored before
\* it, with two fragments.
C3_Witness ==
  /\ IsStore
  /\ ~lastOp.raised
  /\ Len(lastOp.points) = 2
  /\ \A k \in 1..Len(lastOp.points) : lastOp.points[k].id \in DOMAIN lastOp.before
  /\ store = lastOp.before

HasConfiguredSize(item) ==
  item.kind = "dict" /\ item.embedding.dim = VECTOR_SIZE

ValidPositions(embeddings) ==
  {k \in 1..Len(embeddings) : HasConfiguredSize(embeddings[k])}

\* C4: store_embeddings never persists a vector that is not of the
\* configured size; it succeeds exactly when the batch holds a valid fragment
\* and then persists every valid fragment, touching no other point; when it
\* fails the store is unchanged.
C4_PartialFailurePolicy ==
  IsStore =>
    LET valid == ValidPositions(lastOp.embeddings)
        ids == {PointId(lastOp.document_id, lastOp.embeddings[k].chunk_index) :
                  k \in valid}
    IN  /\ lastOp.raised <=> valid = {}
        /\ lastOp.raised => store = lastOp.before
        /\ \A id \in DOMAIN store : store[id].vector.dim = VECTOR_SIZE
        /\ ~lastOp.raised =>
             /\ DOMAIN store = (DOMAIN lastOp.before) \cup ids
             /\ \A id \in (DOMAIN lastOp.before) \ ids : store[id] = lastOp.before[id]
             /\ \A k \in valid :
                  LET item == lastOp.embeddings[k]
                      id == PointId(lastOp.document_id, item.chunk_index)
                  IN  /\ store[id].vector = item.embedding
                      /\ store[id].payload =
                           Payload(lastOp.tenant_id, lastOp.document_id,
                                   item.chunk_index, item.text)

\* C4 witness: a call that succeeded on a batch holding a fragment of the
\* wrong size and a valid one.
C4_Witness ==
  /\ IsStore
  /\ ~lastOp.raised
  /\ \E k \in 1..Len(lastOp.embeddings) :
       /\ lastOp.embeddings[k] # BadItem
       /\ lastOp.embeddings[k].embedding.dim # VECTOR_SIZE
  /\ ValidPositions(lastOp.embeddings) # {}

PoolPos(payload) ==
  CHOOSE k \in 1..Len(lastOp.pool) : lastOp.pool[k].payload = payload

PoolScores ==
  {cosine_similarity(lastOp.query_vector, lastOp.pool[k].vector) :
     k \in 1..Len(lastOp.pool)}

\* C5: the results of search_embeddings are in descending order of
\* similarity, results of equal similarity are in the order the scroll
\* returned them, and the first score is the greatest similarity of the pool.
C5_RankingCorrectness ==
  (IsSearch /\ ~lastOp.caught) =>
    LET r == lastOp.results
    IN  /\ \A i, j \in 1..Len(r) :
             i < j => /\ r[i].score >= r[j].score
                      /\ r[i].score = r[j].score
                           => PoolPos(r[i].payload) < PoolPos(r[j].payload)
        /\ lastOp.pool # <<>> =>
             /\ r # <<>>
             /\ r[1].score \in PoolScores
             /\ \A s \in PoolScores : s <= r[1].score

\* C5 witness: a search whose results hold two of equal score and whose best
\* result is not the first point of the pool.
C5_Witness ==
  /\ IsSearch
  /\ ~lastOp.caught
  /\ Len(lastOp.results) >= 3
  /\ \E i, j \in 1..Len(lastOp.results) :
       i < j /\ lastOp.results[i].score = lastOp.results[j].score
  /\ lastOp.results[1].score > lastOp.results[Len(lastOp.results)].score
  /\ lastOp.results[1].payload # lastOp.pool[1].payload

IsSearchRequest == lastOp.op \in {"semantic_search", "auth_semantic_search"}

GenerationFails == backend = "absent" \/ lastOp.gen = "raises"

\* C7: when the generation backend is absent or its call raises and the
\* ranked list is not empty, generate_answer raises nothing and answers with
\* the text of the first, highest-ranked fragment, marked as a fallback, and
\* the search endpoint returns that answer in a response that is no error.
C7_AlwaysAnswerFallback ==
  (IsSearchRequest /\ lastOp.generated /\ GenerationFails) =>
    /\ ~lastOp.resp.error
    /\ lastOp.resp.sources # <<>>
    /\ lastOp.resp.total_results = Len(lastOp.resp.sources)
    /\ lastOp.resp.answer.kind = "fallback"
    /\ lastOp.resp.answer.body = lastOp.resp.sources[1].text
    /\ \A k \in 1..Len(lastOp.resp.sources) :
         lastOp.resp.sources[k].score <= lastOp.resp.sources[1].score

\* C7 witness: the backend is configured and its call raised, over two
\* sources of different texts and scores.
C7_Witness ==
  /\ IsSearchRequest
  /\ lastOp.generated
  /\ backend = "configured"
  /\ lastOp.gen = "raises"
  /\ ~lastOp.resp.error
  /\ Len(lastOp.resp.sources) >= 2
  /\ lastOp.resp.sources[1].text # lastOp.resp.sources[2].text
  /\ lastOp.resp.sources[1].score > lastOp.resp.sources[2].score

EmptyPartitionAnswer ==
  /\ ~lastOp.resp.error
  /\ lastOp.resp.sources = <<>>
  /\ lastOp.resp.total_results = 0
  /\ lastOp.resp.answer.kind = "no_info"
  /\ lastOp.resp.answer.body = lastOp.query

\* C8 as stated: a search issued for a tenant with no stored fragment
\* returns a response that is no error, with no source and the "no relevant
\* information" answer naming the query.
C8_Original ==
  (IsSearchRequest /\ TenantIds(store, lastOp.tenant_id) = {})
    => EmptyPartitionAnswer

\* C8 as amended: the same for a search whose query is not blank and whose
\* embedding was produced; the answer depends on the query alone.
C8_EmptyPartition ==
  (/\ IsSearchRequest
   /\ TenantIds(store, lastOp.tenant_id) = {}
   /\ TextLen(Strip(lastOp.query)) >= 1
   /\ lastOp.eo = "ok")
    => EmptyPartitionAnswer

\* C8 witness: such a search, answered while another tenant has points
\* stored and the generation backend is configured.
C8_Witness ==
  /\ IsSearchRequest
  /\ TenantIds(store, lastOp.tenant_id) = {}
  /\ store # NoStore
  /\ backend = "configured"
  /\ lastOp.searched
  /\ ~lastOp.resp.error

IsTextIngest ==
  lastOp.op \in {"ingest_to_qdrant", "auth_ingest_to_qdrant", "upload_file_endpoint"}

ShorterThanMinimum(text) == TextLen(Strip(text)) < MIN_TEXT_LEN

\* C9: on every ingestion path a text shorter than 50 characters yields an
\* error and causes no segmentation, no embedding call, no collection
\* creation and no upsert: the store is unchanged.
C9_TooShortRejected ==
  /\ (IsTextIngest /\ ShorterThanMinimum(lastOp.text)) =>
       /\ lastOp.resp.error
       /\ lastOp.calls = {}
       /\ store = lastOp.before
  /\ lastOp.op = "upload_files_bulk" =>
       \A k \in 1..Len(lastOp.files) :
         ShorterThanMinimum(lastOp.files[k].content) =>
           /\ lastOp.resp.results[k].error
           /\ lastOp.calls[k] = {}

UsableChunks == {k \in 1..Len(lastOp.outs) : lastOp.outs[k] = "ok"}

ReportedStored ==
  IF lastOp.op = "upload_file_endpoint" THEN lastOp.resp.chunks_stored
  ELSE lastOp.resp.total_chunks

\* C10: an ingest of a text fails, storing nothing, exactly when no chunk was
\* produced and embedded; otherwise it succeeds, upserts exactly the chunks
\* that were embedded and reports their number.
C10_IngestOutcome ==
  (/\ IsTextIngest
   /\ lastOp.op = "upload_file_endpoint" => lastOp.ext = ".txt") =>
    /\ lastOp.resp.error <=> UsableChunks = {}
    /\ lastOp.resp.error => store = lastOp.before
    /\ ~lastOp.resp.error =>
         /\ DOMAIN lastOp.before \subseteq DOMAIN store
         /\ (DOMAIN store) \ (DOMAIN lastOp.before) =
              {PointId(lastOp.resp.document_id, k - 1) : k \in UsableChunks}
         /\ ReportedStored = Cardinality(UsableChunks)

(***************************************************************************)
(* ChunkSpec: chunk_text (chunker.py) called with arbitrary parameters,    *)
(* one iteration of its while loop per step.                               *)
(***************************************************************************)
MaxTextLen == 5

MaxChunkSize == 4

ChunkAlphabet == {"a", "b", " "}

\* The text of a string given character by character.
PrependChar(c, runs) ==
  IF runs # <<>> /\ runs[1].c = c
    THEN <<Run(c, runs[1].n + 1)>> \o Tail(runs)
    ELSE <<Run(c, 1)>> \o runs

RECURSIVE ToRuns(_)
ToRuns(str) ==
  IF str = <<>> THEN <<>> ELSE PrependChar(Head(str), ToRuns(Tail(str)))

Abcdefghij == ToRuns(<<"a", "b", "c", "d", "e", "f", "g", "h", "i", "j">>)

ChunkTexts == {ToRuns(str) : str \in SeqsUpTo(ChunkAlphabet, MaxTextLen)}

ChunkSizes == 1..MaxChunkSize

Overlaps == 0..MaxChunkSize

\* The calls: every text with every pair of parameters, and the call
\* chunk_text("abcdefghij", 4, 1).
ChunkInputs ==
  (ChunkTexts \X ChunkSizes \X Overlaps) \cup {<<Abcdefghij, 4, 1>>}

\* The loop is followed for at most ChunkCap iterations: more than any call
\* of ChunkInputs that advances its window needs.
ChunkCap == MaxTextLen + 1

\* An index of a Python slice: a negative index counts from the end.
SliceIndex(i, length) == IF i < 0 THEN MaxOf(i + length, 0) ELSE i

\* text[a:b] for any integers a and b.
PySlice(text, a, b) ==
  Slice(text, SliceIndex(a, TextLen(text)), SliceIndex(b, TextLen(text)))

\* Mutant of NextStart: the window advances by the overlap.
NextStartByOverlap(start, chunk_size, overlap) == start + overlap

\* end = start + chunk_size; start = end - overlap
NextStart(start, chunk_size, overlap) == (start + chunk_size) - overlap

ChunkInit ==
  /\ collection = FALSE
  /\ store = NoStore
  /\ usedDocs = {}
  /\ backend = "absent"
  /\ lastOp = Idle
  /\ chunker = NoChunker
  /\ creators = NoCreators

\* chunk_text(text, chunk_size, overlap) up to the loop: the normalisation,
\* chunks = [], start = 0.  starts records the start offset of every chunk.
ChunkCall(text, chunk_size, overlap) ==
  /\ chunker.pc = "idle"
  /\ chunker' = [pc |-> "loop", raw |-> text, text |-> Normalize(text),
                 chunk_size |-> chunk_size, overlap |-> overlap,
                 chunks |-> <<>>, starts |-> <<>>, start |-> 0]
  /\ UNCHANGED <<collection, store, usedDocs, backend, lastOp, creators>>

\* One iteration of the while loop.
ChunkIterate ==
  /\ chunker.pc = "loop"
  /\ chunker.start < TextLen(chunker.text)
  /\ Len(chunker.chunks) < ChunkCap
  /\ chunker' =
       [chunker EXCEPT
          !.chunks = Append(@, PySlice(chunker.text, chunker.start,
                                       chunker.start + chunker.chunk_size)),
          !.starts = Append(@, chunker.start),
          !.start = NextStart(@, chunker.chunk_size, chunker.overlap)]
  /\ UNCHANGED <<collection, store, usedDocs, backend, lastOp, creators>>

\* The loop's test fails: return chunks.
ChunkReturn ==
  /\ chunker.pc = "loop"
  /\ chunker.start >= TextLen(chunker.text)
  /\ chunker' = [chunker EXCEPT !.pc = "returned"]
  /\ UNCHANGED <<collection, store, usedDocs, backend, lastOp, creators>>

ChunkNext ==
  \/ /\ chunker.pc = "idle"
     /\ \E in \in ChunkInputs : ChunkCall(in[1], in[2], in[3])
  \/ ChunkIterate
  \/ ChunkReturn

ChunkSpec == ChunkInit /\ [][ChunkNext]_vars

\* The loop runs to its end: a call in progress takes its next step.
ChunkLive == ChunkSpec /\ WF_vars(ChunkIterate) /\ WF_vars(ChunkReturn)

(***************************************************************************)
(* Claims on chunk_text (checked under ChunkSpec and ChunkLive)            *)
(***************************************************************************)
ChunkReturned == chunker.pc = "returned"

AdvancingCall == chunker.pc # "idle" /\ chunker.overlap < chunker.chunk_size

ChunkStep == chunker.chunk_size - chunker.overlap

ChunkEnd(i) == chunker.starts[i] + TextLen(chunker.chunks[i])

\* C11: with overlap < chunk_size, fragment i (from 0) of the normalized text
\* is the slice that starts at offset i * (chunk_size - overlap); every
\* fragment but the final one has length chunk_size and the final one runs to
\* the end of the text; "abcdefghij" with chunk_size 4 and overlap 1 yields
\* "abcd", "defg", "ghij", "j".
C11_WindowLayout ==
  (ChunkReturned /\ AdvancingCall) =>
    LET n == Len(chunker.chunks)
    IN  /\ \A i \in 1..n :
             chunker.chunks[i] =
               Slice(chunker.text, (i - 1) * ChunkStep,
                     (i - 1) * ChunkStep + TextLen(chunker.chunks[i]))
        /\ \A i \in 1..(n - 1) : TextLen(chunker.chunks[i]) = chunker.chunk_size
        /\ n >= 1 =>
             chunker.chunks[n] =
               Slice(chunker.text, (n - 1) * ChunkStep, TextLen(chunker.text))
        /\ (chunker.raw = Abcdefghij /\ chunker.chunk_size = 4 /\ chunker.overlap = 1) =>
             chunker.chunks = <<ToRuns(<<"a", "b", "c", "d">>),
                                ToRuns(<<"d", "e", "f", "g">>),
                                ToRuns(<<"g", "h", "i", "j">>),
                                ToRuns(<<"j">>)>>

\* C12: with overlap < chunk_size, the start offsets of the fragments
\* strictly increase, every two consecutive fragments before the last one
\* share exactly overlap characters, and every position of the normalized
\* text lies in some fragment.
C12_SegmentationCoverage ==
  (ChunkReturned /\ AdvancingCall) =>
    LET n == Len(chunker.chunks)
    IN  /\ \A i \in 1..(n - 1) : chunker.starts[i] < chunker.starts[i + 1]
        /\ \A i \in 1..(n - 2) : ChunkEnd(i) - chunker.starts[i + 1] = chunker.overlap
        /\ \A pos \in 0..(TextLen(chunker.text) - 1) :
             \E i \in 1..n : chunker.starts[i] <= pos /\ pos < ChunkEnd(i)

\* C13: with overlap < chunk_size, a text whose normalized length is less
\* than chunk_size yields exactly one fragment, the whole normalized text.
C13_DegenerateSegmentation ==
  (ChunkReturned /\ AdvancingCall
     /\ TextLen(chunker.text) < chunker.chunk_size) =>
    chunker.chunks = <<chunker.text>>

\* C18: every iteration of the loop moves the start offset by
\* chunk_size - overlap, which is an advance exactly when
\* overlap < chunk_size, and every call with overlap < chunk_size returns.
C18_Termination ==
  /\ [][(chunker.pc = "loop" /\ chunker'.pc = "loop") =>
          /\ chunker'.start = chunker.start + ChunkStep
          /\ (chunker'.start > chunker.start) <=> AdvancingCall]_chunker
  /\ [](AdvancingCall => <>ChunkReturned)

\* C18 witness: a call with 0 < overlap < chunk_size has returned after three
\* iterations or more.
C18_Witness ==
  /\ ChunkReturned
  /\ 0 < chunker.overlap
  /\ chunker.overlap < chunker.chunk_size
  /\ Len(chunker.chunks) >= 3
  /\ chunker.raw # chunker.text

(***************************************************************************)
(* Further claims on the vector store interface (checked under StoreSpec)  *)
(***************************************************************************)
\* C14: search_embeddings called with a query vector that is empty or not of
\* the configured size raises an error to its caller and issues no read of
\* the store.
C14_MalformedQueryVector ==
  (IsSearch /\ lastOp.query_vector.dim # VECTOR_SIZE) =>
    /\ lastOp.raised
    /\ ~lastOp.scrolled

\* C16: a call of store_embeddings for one tenant leaves every point stored
\* under another tenant in place, with its tenant, text and vector.
C16_WriteSideIsolation ==
  IsStore =>
    \A id \in DOMAIN lastOp.before :
      lastOp.before[id].payload.tenant_id # lastOp.tenant_id =>
        /\ id \in DOMAIN store
        /\ store[id] = lastOp.before[id]

(***************************************************************************)
(* AnswerSpec: generate_answer (gemini_client.py) called with arbitrary    *)
(* arguments, the backend configured or not.                               *)
(***************************************************************************)
MaxContext == 2

AnswerSources ==
  {[score |-> 4, text |-> <<Run("a", 1)>>, document_id |-> 1, chunk_index |-> 0],
   [score |-> 2, text |-> <<Run("z", 1)>>, document_id |-> 1, chunk_index |-> 1],
   [score |-> 0, text |-> <<Run("c", 1)>>, document_id |-> 2, chunk_index |-> 0]}

Contexts == SeqsUpTo(AnswerSources, MaxContext)

AnswerInit ==
  /\ collection = FALSE
  /\ store = NoStore
  /\ usedDocs = {}
  /\ backend \in {"absent", "configured"}
  /\ lastOp = Idle
  /\ chunker = NoChunker
  /\ creators = NoCreators

GenerateCall(query, context_chunks, gen) ==
  LET out == generate_answer(backend, gen, query, context_chunks)
  IN  /\ lastOp.op = "idle"
      /\ lastOp' = [op |-> "generate_answer", query |-> query,
                    context_chunks |-> context_chunks, gen |-> gen,
                    raised |-> out.raised, called |-> out.called,
                    answer |-> out.answer]
      /\ UNCHANGED <<collection, store, usedDocs, backend, chunker, creators>>

AnswerNext ==
  \/ Respond
  \/ \E q \in Queries, x \in Contexts, g \in GenOutcomes : GenerateCall(q, x, g)

AnswerSpec == AnswerInit /\ [][AnswerNext]_vars

\* C15: generate_answer called with an empty list of fragments returns the
\* no-relevant-information message naming the query and does not invoke the
\* generation backend, configured or not.
C15_EmptyContextNoBackend ==
  (lastOp.op = "generate_answer" /\ lastOp.context_chunks = <<>>) =>
    /\ ~lastOp.raised
    /\ ~lastOp.called
    /\ lastOp.answer.kind = "no_info"
    /\ lastOp.answer.body = lastOp.query

(***************************************************************************)
(* CreateSpec: create_collection (qdrant.py) as its two requests to the    *)
(* store, run by concurrent callers: the startup event of a process and    *)
(* the ingest requests, which a thread pool serves.  The store creates a   *)
(* collection atomically and rejects the creation of one that exists; the  *)
(* client then raises.                                                     *)
(***************************************************************************)
MaxCallers == 4

Callers == 1..MaxCallers

CreateInit ==
  /\ collection = FALSE
  /\ store = NoStore
  /\ usedDocs = {}
  /\ backend = "absent"
  /\ lastOp = Idle
  /\ chunker = NoChunker
  /\ creators = [p \in Callers |-> "idle"]

\* client.get_collections() and the test of line 18.
GetCollections(p) ==
  /\ creators[p] = "idle"
  /\ creators' = [creators EXCEPT ![p] = IF collection THEN "done" ELSE "absent"]
  /\ UNCHANGED <<collection, store, usedDocs, backend, lastOp, chunker>>

\* client.create_collection(...), issued because the name was not listed.
CreateRequest(p) ==
  /\ creators[p] = "absent"
  /\ collection' = TRUE
  /\ creators' = [creators EXCEPT ![p] = IF collection THEN "failed" ELSE "done"]
  /\ UNCHANGED <<store, usedDocs, backend, lastOp, chunker>>

\* The call is over (it returned, or its caller handled the exception); the
\* caller may call again.
CreateReturn(p) ==
  /\ creators[p] \in {"done", "failed"}
  /\ creators' = [creators EXCEPT ![p] = "idle"]
  /\ UNCHANGED <<collection, store, usedDocs, backend, lastOp, chunker>>

CreateNext ==
  \E p \in Callers : GetCollections(p) \/ CreateRequest(p) \/ CreateReturn(p)

CreateSpec == CreateInit /\ [][CreateNext]_vars

\* C17: in every interleaving of create_collection calls a create request is
\* issued only while the collection does not exist, so no call fails because
\* the collection already exists (a call is "failed" exactly when its create
\* request reached the store while the collection existed).
C17_CreateOnce == \A p \in DOMAIN creators : creators[p] # "failed"

====
